---------------------------- MODULE Spec2Model ----------------------------
(***************************************************************************)
(* cargo-sweep: the artifact-grouping and eviction engine of               *)
(* src/src/fingerprint.rs.                                                 *)
(*                                                                         *)
(* Three state machines share this module.                                 *)
(*   Spec          a build tree (profiles with their tracked directories)  *)
(*                 and the sweeps the three policies run over it;          *)
(*   CodecSpec     hash_from_path_name applied to bounded filenames;       *)
(*   ResolverSpec  hash_toolchains resolving toolchain names to the set of *)
(*                 toolchain identities.                                   *)
(***************************************************************************)
EXTENDS Integers, Sequences, FiniteSets, TLC

VARIABLES
    filename,    \* CodecSpec: the &str handed to hash_from_path_name
    extracted,   \* CodecSpec: what it returned (None before the call)
    called       \* CodecSpec: whether hash_from_path_name has returned

codecVars == <<filename, extracted, called>>

VARIABLES
    rust_versions,  \* ResolverSpec: the names the caller gave (None: all installed)
    rustup,         \* ResolverSpec: what rustup_toolchain_list returns
    rustc_out,      \* ResolverSpec: what the n-th run of rustc -vV will give
    r_pc,           \* ResolverSpec: where hash_toolchains stands
    iter,           \* ResolverSpec: the items lookup_from_names has still to take
    toolchain_set,  \* ResolverSpec: the set lookup_from_names builds
    queried,        \* ResolverSpec: the items rustc has been run for, in order
    hashed          \* ResolverSpec: what hash_toolchains returned (None before)

resolverVars ==
    <<rust_versions, rustup, rustc_out, r_pc, iter, toolchain_set, queried, hashed>>

VARIABLES
    unit_dir,    \* Fingerprint::load: the entries of the unit directory, in read_dir order
    loaded       \* Fingerprint::load: what it returned (None before the call)

loaderVars == <<unit_dir, loaded>>

VARIABLES
    tree,        \* the entries on disk under the root (the target directory)
    unreadable,  \* the tracked directories fs::read_dir fails on: <<profile, dir>>
    policy,      \* the criterion of the invocation, with its argument
    pc,          \* where the running sweep stands
    dry_run,     \* the --dry-run flag of the running sweep
    keep,        \* the keep-set computed for each profile (organized)
    classified,  \* the profiles whose keep-set has been computed
    pending,     \* the profiles still to be swept
    cur,         \* the profile being swept, and the tracked directory reached
    total,       \* total_disk_space of the running sweep
    walk,        \* remove_older_until_fits: starting size, order, removed
    attempts,    \* the entries whose removal the running sweep attempted or reported
    failures,    \* the entries whose removal failed in the running sweep
    old_size,    \* the size of the tree when the running sweep began
    old_tree,    \* the tree when the running sweep began
    result,      \* what the running sweep returned (None while it runs)
    last,        \* the sweep that ran before this one (None for the first)
    stamp,       \* whether <path>/sweep.timestamp exists
    criterion    \* the criterion flag of the latest invocation of main

sweepVars ==
    <<tree, unreadable, policy, pc, dry_run, keep, classified, pending, cur, total, walk,
      attempts, failures, old_size, old_tree, result, last, stamp, criterion>>

(***************************************************************************)
(* Option<T>                                                               *)
(***************************************************************************)
None == [some |-> FALSE]

\* Result<u64, Error>: Ok(v) is Some(v); Err is told apart from "not returned"
Err == [some |-> FALSE, err |-> TRUE]

Some(v) == [some |-> TRUE, val |-> v]

(***************************************************************************)
(* Characters and strings.  A &str is a sequence of one-character strings. *)
(***************************************************************************)
HexDigits ==
    {"0", "1", "2", "3", "4", "5", "6", "7", "8", "9",
     "a", "b", "c", "d", "e", "f", "A", "B", "C", "D", "E", "F"}

is_ascii_hexdigit(c) == c \in HexDigits

\* The length a hash segment must have (fingerprint.rs:53).
HashLen == 16

RECURSIVE Rep(_, _)
Rep(c, n) == IF n = 0 THEN <<>> ELSE <<c>> \o Rep(c, n - 1)

\* index of the first occurrence of c in s, 0 when there is none
RECURSIVE FirstIndex(_, _, _)
FirstIndex(s, c, i) ==
    IF i > Len(s) THEN 0
    ELSE IF s[i] = c THEN i
    ELSE FirstIndex(s, c, i + 1)

\* index of the last occurrence of c in s, 0 when there is none
RECURSIVE LastIndex(_, _, _)
LastIndex(s, c, i) ==
    IF i = 0 THEN 0
    ELSE IF s[i] = c THEN i
    ELSE LastIndex(s, c, i - 1)

\* s.split(c).next().unwrap(): the text before the first c, all of s without one
SplitFirst(s, c) ==
    LET i == FirstIndex(s, c, 1)
    IN  IF i = 0 THEN s ELSE SubSeq(s, 1, i - 1)

\* s.rsplit(c).next().unwrap(): the text after the last c, all of s without one
RSplitFirst(s, c) ==
    LET i == LastIndex(s, c, Len(s))
    IN  IF i = 0 THEN s ELSE SubSeq(s, i + 1, Len(s))

\* A plausible slip: the extension is cut at the last dot instead of the first.
hash_from_path_name_lastdot(fname) ==
    LET i    == LastIndex(fname, ".", Len(fname))
        name == IF i = 0 THEN fname ELSE SubSeq(fname, 1, i - 1)
        hash == RSplitFirst(name, "-")
    IN  IF Len(hash) = Len(name) THEN None
        ELSE IF ~(\A k \in 1..Len(hash) : is_ascii_hexdigit(hash[k])) THEN None
        ELSE IF Len(hash) # HashLen THEN None
        ELSE Some(hash)

\* A plausible slip: the length test is dropped.
hash_from_path_name_anylen(fname) ==
    LET name == SplitFirst(fname, ".")
        hash == RSplitFirst(name, "-")
    IN  IF Len(hash) = Len(name) THEN None
        ELSE IF ~(\A k \in 1..Len(hash) : is_ascii_hexdigit(hash[k])) THEN None
        ELSE Some(hash)

hash_from_path_name(fname) ==
    LET name == SplitFirst(fname, ".")
        hash == RSplitFirst(name, "-")
    IN  IF Len(hash) = Len(name) THEN None
        ELSE IF ~(\A k \in 1..Len(hash) : is_ascii_hexdigit(hash[k])) THEN None
        ELSE IF Len(hash) # HashLen THEN None
        ELSE Some(hash)

(***************************************************************************)
(* CodecSpec: bounded filenames.  A filename is a short free prefix, a run *)
(* of hex digits whose length straddles HashLen, and a short free suffix,  *)
(* over an alphabet holding a hex digit, a non-hex letter, '-' and '.'.    *)
(***************************************************************************)
MaxPre == 2

MaxSuf == 3

Alphabet == {"a", "g", "-", "."}

RECURSIVE StringsUpTo(_)
StringsUpTo(n) ==
    IF n = 0 THEN {<<>>}
    ELSE LET shorter == StringsUpTo(n - 1)
         IN  shorter \cup {Append(s, c) : s \in shorter, c \in Alphabet}

RunLengths == {0, 1, HashLen - 1, HashLen, HashLen + 1}

Filenames ==
    {p \o Rep("a", k) \o s :
        p \in StringsUpTo(MaxPre), k \in RunLengths, s \in StringsUpTo(MaxSuf)}

CodecInit ==
    /\ filename \in Filenames
    /\ extracted = None
    /\ called = FALSE
    /\ tree = {}
    /\ unreadable = {}
    /\ policy = [kind |-> "none", arg |-> 0]
    /\ pc = "idle"
    /\ dry_run = FALSE
    /\ keep = <<>>
    /\ classified = {}
    /\ pending = {}
    /\ cur = <<>>
    /\ total = 0
    /\ walk = <<>>
    /\ attempts = {}
    /\ failures = {}
    /\ old_size = 0
    /\ old_tree = {}
    /\ result = None
    /\ last = None
    /\ stamp = FALSE
    /\ criterion = "none"
    /\ unit_dir = <<>>
    /\ loaded = None
    /\ rust_versions = None
    /\ rustup = None
    /\ rustc_out = <<>>
    /\ r_pc = "idle"
    /\ iter = <<>>
    /\ toolchain_set = {}
    /\ queried = <<>>
    /\ hashed = None

Extract ==
    /\ ~called
    /\ extracted' = hash_from_path_name(filename)
    /\ called' = TRUE
    /\ UNCHANGED <<filename, sweepVars, resolverVars, loaderVars>>

CodecNext == Extract

CodecSpec == CodecInit /\ [][CodecNext]_<<codecVars, sweepVars, resolverVars, loaderVars>>

(***************************************************************************)
(* The build tree.                                                         *)
(*                                                                         *)
(* A root (the target directory) holds profiles; a profile is the parent   *)
(* of a directory named .fingerprint.  The tracked directories of a        *)
(* profile are build, deps, native, the profile root itself and            *)
(* .fingerprint.  An entry is an immediate child of a tracked directory:   *)
(*   profile, dir   where it lies                                          *)
(*   name           its file name                                          *)
(*   kind           "file" or "dir"                                        *)
(*   size           metadata.len() of a file, total_disk_space_dir of a    *)
(*                  directory                                              *)
(*   accessed       for a directory: the elapsed access times of its       *)
(*                  immediate entries                                      *)
(*   rustc          for a directory: what Fingerprint::load yields there   *)
(* Profiles are disjoint subtrees, and the names .fingerprint, build, deps *)
(* and native carry no identity, so no sweep removes a tracked directory.  *)
(***************************************************************************)
Profiles == {"debug", "release"}

\* A plausible slip: the marker directory is swept before the artifacts.
SweepDirs_markerfirst == <<".fingerprint", "build", "deps", "native", "root">>

\* the order in which remove_not_built_with_in_a_profile visits them
SweepDirs == <<"build", "deps", "native", "root", ".fingerprint">>

\* the order in which total_disk_space_in_a_profile visits them
SizingDirs == <<".fingerprint", "build", "deps", "native", "root">>

H1 == Rep("a", HashLen)

H2 == Rep("b", HashLen)

Entry(p, d, n, k, sz, acc, r) ==
    [profile |-> p, dir |-> d, name |-> n, kind |-> k, size |-> sz,
     accessed |-> acc, rustc |-> r]

\* the names met in the trees of Spec
TreeNames ==
    {<<"a", "-">> \o H1, <<"c", "-">> \o H1, <<"b", "-">> \o H2,
     <<"a", "-">> \o H1 \o <<".", "1", ".", "o">>,
     <<"a", "-">> \o Rep("a", HashLen - 1) \o <<".", "d">>}

\* hash_from_path_name over the names of the trees
HashOf == [n \in TreeNames |-> hash_from_path_name(n)]

RECURSIVE SumSizes(_)
SumSizes(es) ==
    IF es = {} THEN 0
    ELSE LET e == CHOOSE x \in es : TRUE
         IN  e.size + SumSizes(es \ {e})

\* read_dir(dir) of one tracked directory of a profile
ReadDir(t, p, d) == {e \in t : e.profile = p /\ e.dir = d}

\* total_disk_space_dir(root): the regular files under the root
total_disk_space_dir(t) == SumSizes(t)

\* Elapsed times are counted in days.  Duration::from_secs(3_155_760_000),
\* the start value of best, is 36525 days.
HundredYears == 36525

RECURSIVE MinOf(_, _)
MinOf(ts, best) ==
    IF ts = {} THEN best
    ELSE LET x == CHOOSE y \in ts : TRUE
         IN  MinOf(ts \ {x}, IF x < best THEN x ELSE best)

\* A plausible slip: the first entry read decides, not the most recent one.
last_used_time_first(e) ==
    IF e.accessed = {} THEN HundredYears
    ELSE CHOOSE x \in e.accessed : \A y \in e.accessed : y <= x

last_used_time(e) == MinOf(e.accessed, HundredYears)

\* the directories under .fingerprint: the unit directories of a profile
UnitDirs(t, p) == {e \in ReadDir(t, p, ".fingerprint") : e.kind = "dir"}

(***************************************************************************)
(* Keep-sets of the toolchain and the age policy                           *)
(***************************************************************************)
\* A plausible slip: the toolchain of the record is not compared.
load_all_fingerprints_built_with_unfiltered(t, p, installed_rustc) ==
    {HashOf[e.name].val : e \in {u \in UnitDirs(t, p) : HashOf[u.name].some}}

\* A plausible slip: a unit whose record cannot be loaded is dropped.
load_all_fingerprints_built_with_failclosed(t, p, installed_rustc) ==
    {HashOf[e.name].val :
        e \in {u \in UnitDirs(t, p) :
                 /\ u.rustc.some
                 /\ u.rustc.val \in installed_rustc
                 /\ HashOf[u.name].some}}

load_all_fingerprints_built_with(t, p, installed_rustc) ==
    {HashOf[e.name].val :
        e \in {u \in UnitDirs(t, p) :
                 /\ (IF u.rustc.some THEN u.rustc.val \in installed_rustc ELSE TRUE)
                 /\ HashOf[u.name].some}}

\* A plausible slip: <= in place of <.
load_all_fingerprints_newer_than_inclusive(t, p, keep_duration) ==
    {HashOf[e.name].val :
        e \in {u \in UnitDirs(t, p) :
                 /\ last_used_time(u) <= keep_duration
                 /\ HashOf[u.name].some}}

\* A plausible slip: the comparison is turned around.
load_all_fingerprints_newer_than_flipped(t, p, keep_duration) ==
    {HashOf[e.name].val :
        e \in {u \in UnitDirs(t, p) :
                 /\ last_used_time(u) > keep_duration
                 /\ HashOf[u.name].some}}

load_all_fingerprints_newer_than(t, p, keep_duration) ==
    {HashOf[e.name].val :
        e \in {u \in UnitDirs(t, p) :
                 /\ last_used_time(u) < keep_duration
                 /\ HashOf[u.name].some}}

(***************************************************************************)
(* Ordering of strings, paths and tuples (derived Ord)                     *)
(***************************************************************************)
\* the characters of the model in ASCII order
Ascii ==
    <<"-", ".", "0", "1", "2", "3", "4", "5", "6", "7", "8", "9",
      "A", "B", "C", "D", "E", "F", "a", "b", "c", "d", "e", "f", "g", "o">>

CharRank(c) == CHOOSE i \in 1..Len(Ascii) : Ascii[i] = c

RECURSIVE StrLess(_, _)
StrLess(a, b) ==
    IF b = <<>> THEN FALSE
    ELSE IF a = <<>> THEN TRUE
    ELSE IF Head(a) = Head(b) THEN StrLess(Tail(a), Tail(b))
    ELSE CharRank(Head(a)) < CharRank(Head(b))

\* <root>/debug/.fingerprint sorts before <root>/release/.fingerprint
PathRank(p) == IF p = "debug" THEN 1 ELSE 2

\* (Duration, String)
PairLess(x, y) ==
    \/ x[1] < y[1]
    \/ x[1] = y[1] /\ StrLess(x[2], y[2])

\* (Duration, u64, &Path, String)
TupleLess(x, y) ==
    \/ x[1] < y[1]
    \/ x[1] = y[1] /\ x[2] < y[2]
    \/ x[1] = y[1] /\ x[2] = y[2] /\ PathRank(x[3]) < PathRank(y[3])
    \/ x[1] = y[1] /\ x[2] = y[2] /\ x[3] = y[3] /\ StrLess(x[4], y[4])

RECURSIVE InsertPair(_, _)
InsertPair(x, sorted) ==
    IF sorted = <<>> THEN <<x>>
    ELSE IF PairLess(x, Head(sorted)) THEN <<x>> \o sorted
    ELSE <<Head(sorted)>> \o InsertPair(x, Tail(sorted))

RECURSIVE InsertTuple(_, _)
InsertTuple(x, sorted) ==
    IF sorted = <<>> THEN <<x>>
    ELSE IF TupleLess(x, Head(sorted)) THEN <<x>> \o sorted
    ELSE <<Head(sorted)>> \o InsertTuple(x, Tail(sorted))

\* Vec::sort over the tuples of order
RECURSIVE SortTuples(_)
SortTuples(v) ==
    IF v = <<>> THEN <<>> ELSE InsertTuple(Head(v), SortTuples(Tail(v)))

(***************************************************************************)
(* Sizes by identity                                                       *)
(***************************************************************************)
\* the identities carried by the entries es
HashesIn(es) == {HashOf[e.name].val : e \in {x \in es : HashOf[x.name].some}}

WithHash(es, h) == {e \in es : HashOf[e.name] = Some(h)}

\* total_disk_space_by_hash_in_a_dir, folded over the directories ds[i..]
RECURSIVE SizeDirs(_, _, _, _, _)
SizeDirs(t, p, ds, i, disk_space) ==
    IF i > Len(ds) THEN disk_space
    ELSE LET es    == ReadDir(t, p, ds[i])
             hs    == HashesIn(es)
             added == [h \in DOMAIN disk_space \cup hs |->
                          (IF h \in DOMAIN disk_space THEN disk_space[h] ELSE 0)
                          + SumSizes(WithHash(es, h))]
         IN  SizeDirs(t, p, ds, i + 1, added)

\* A plausible slip: the marker directory is left out of the sizing.
total_disk_space_in_a_profile_nomarker(t, p) ==
    SizeDirs(t, p, SizingDirs, 2, <<>>)

total_disk_space_in_a_profile(t, p) == SizeDirs(t, p, SizingDirs, 1, <<>>)

\* load_all_fingerprints_by_time: (last_used, hash) of the unit directories, sorted
RECURSIVE ByTime(_, _)
ByTime(units, acc) ==
    IF units = {} THEN acc
    ELSE LET u == CHOOSE x \in units : TRUE
         IN  ByTime(units \ {u},
                    IF HashOf[u.name].some
                    THEN InsertPair(<<last_used_time(u), HashOf[u.name].val>>, acc)
                    ELSE acc)

load_all_fingerprints_by_time(t, p) == ByTime(UnitDirs(t, p), <<>>)

(***************************************************************************)
(* remove_older_until_fits: the order and the eviction walk                *)
(***************************************************************************)
\* the profiles under the root, as lookup_all_fingerprint_dirs lists them
ProfileSeq == <<"debug", "release">>

\* the tuples pushed for one profile (lines 493-501)
RECURSIVE PushProfile(_, _, _, _, _)
PushProfile(p, sizes, by_time, i, order) ==
    IF i > Len(by_time) THEN order
    ELSE LET hash == by_time[i][2]
             size == IF hash \in DOMAIN sizes THEN sizes[hash] ELSE 0
         IN  PushProfile(p, sizes, by_time, i + 1,
                         Append(order, <<by_time[i][1], size, p, hash>>))

RECURSIVE PushAll(_, _, _, _)
PushAll(t, profs, i, order) ==
    IF i > Len(ProfileSeq) THEN order
    ELSE IF ProfileSeq[i] \notin profs THEN PushAll(t, profs, i + 1, order)
    ELSE PushAll(t, profs, i + 1,
                 PushProfile(ProfileSeq[i],
                             total_disk_space_in_a_profile(t, ProfileSeq[i]),
                             load_all_fingerprints_by_time(t, ProfileSeq[i]),
                             1, order))

\* order after order.sort(): from new to old (lines 489-505)
SortedOrder(t, profs) == SortTuples(PushAll(t, profs, 1, <<>>))

\* the walk of lines 517-531 from position i of order down to 1;
\* st holds removed, organized, the positions marked for eviction (those
\* the walk skips with continue) and the values removed went through
RECURSIVE WalkFrom(_, _, _, _)
WalkFrom(order, i, size_to_remove, st) ==
    IF i = 0 THEN st
    ELSE LET sizes == order[i][2]
             fing  == order[i][3]
             hash  == order[i][4]
         IN  IF st.removed + sizes < size_to_remove
             THEN WalkFrom(order, i - 1, size_to_remove,
                           [st EXCEPT !.removed = @ + sizes,
                                      !.marked = @ \cup {i},
                                      !.trail = Append(@, st.removed + sizes)])
             ELSE WalkFrom(order, i - 1, size_to_remove,
                           [st EXCEPT !.organized[fing] = @ \cup {hash}])

\* A plausible slip: the walk meets the excess before it stops (<= for <).
EvictionWalk_inclusive(order, profs, size_to_remove) ==
    LET RECURSIVE W(_, _)
        W(i, st) ==
            IF i = 0 THEN st
            ELSE IF st.removed + order[i][2] <= size_to_remove
                 THEN W(i - 1, [st EXCEPT !.removed = @ + order[i][2],
                                          !.marked = @ \cup {i},
                                          !.trail = Append(@, st.removed + order[i][2])])
                 ELSE W(i - 1, [st EXCEPT !.organized[order[i][3]] = @ \cup {order[i][4]}])
    IN  W(Len(order), [removed |-> 0, organized |-> [p \in profs |-> {}],
                       marked |-> {}, trail |-> <<>>])

\* lines 507-531: organized starts empty for every fingerprint dir
EvictionWalk(order, profs, size_to_remove) ==
    WalkFrom(order, Len(order), size_to_remove,
             [removed |-> 0, organized |-> [p \in profs |-> {}],
              marked |-> {}, trail |-> <<>>])

(***************************************************************************)
(* The sweeper                                                             *)
(***************************************************************************)
\* A plausible slip: a name without an identity counts as "not kept".
Doomed_nohash(t, p, d, keepset) ==
    {e \in ReadDir(t, p, d) :
        HashOf[e.name].some => HashOf[e.name].val \notin keepset}

\* A plausible slip: the keep test is inverted.
Doomed_inverted(t, p, d, keepset) ==
    {e \in ReadDir(t, p, d) :
        HashOf[e.name].some /\ HashOf[e.name].val \in keepset}

\* the entries remove_not_matching_in_a_dir counts and removes (lines 220-221)
Doomed(t, p, d, keepset) ==
    {e \in ReadDir(t, p, d) :
        HashOf[e.name].some /\ HashOf[e.name].val \notin keepset}

(***************************************************************************)
(* Toolchain identities.  The text `rustc -vV` prints is told apart by the *)
(* release it names, a number of Versions; the two hashing schemes send it *)
(* to distinct identities, none of them 0.                                 *)
(***************************************************************************)
Versions == {1, 2}

\* the current scheme (StableSipHasher128)
hash_u64(stdout) == 4 * stdout - 3

\* the scheme used prior to Rust 1.85.0 (SipHasher with keys 0, 0)
hash_u64_old(stdout) == 4 * stdout - 1

\* A plausible slip: the sentinel is not inserted.
toolchain_set_new_empty == {}

\* lines 336-339: the set starts with the identity 0
toolchain_set_new == {0}

\* A plausible slip: only the current scheme is inserted.
toolchain_set_insert_current(set, stdout) ==
    set \cup {hash_u64(stdout)}

\* lines 374-375
toolchain_set_insert(set, stdout) ==
    set \cup {hash_u64(stdout), hash_u64_old(stdout)}

\* the set lookup_from_names returns when the queries print outs, in turn
RECURSIVE InsertAll(_, _)
InsertAll(set, outs) ==
    IF outs = <<>> THEN set
    ELSE InsertAll(toolchain_set_insert(set, Head(outs)), Tail(outs))

(***************************************************************************)
(* Spec: the trees, the invocations and the sweep                          *)
(***************************************************************************)
MaxSize == 2

MaxAge == 1

MaxTarget == 3

MaxFailures == 1

Sizes == 1..MaxSize

Ages == 0..MaxAge

\* what Fingerprint::load yields: no record, the sentinel, the current
\* identity of release 1, and the identity of a toolchain that is not installed
RustcValues == {None, Some(0), Some(hash_u64(1)), Some(2)}

Absent == {{}}

\* The shapes of a unit directory: <<size, access times of its entries>>.
\* An empty directory has no bytes and no access time.
EmptyDir == <<0, {}>>

OneEntry(szs) == {<<sz, {a}>> : sz \in szs, a \in Ages}

OldAndFresh == <<1, {0, MaxAge}>>

\* the unit directory <p>/.fingerprint/<n>; an empty one holds no record
Units(p, n, shapes, rs) ==
    {{Entry(p, ".fingerprint", n, "dir", sh[1], sh[2],
            IF sh = EmptyDir THEN None ELSE r)} :
        sh \in shapes, r \in rs}

Files(p, d, n, szs) == {{Entry(p, d, n, "file", sz, {}, None)} : sz \in szs}

\* The trees.  debug may hold the unit directories a-H1 and b-H2, a second
\* directory c-H1 of identity H1, the dependency file a-H1.1.o (an orphan
\* when no directory of H1 is there) and a file that carries no identity
\* (loose in the profile root, or a larger one in build); release may hold
\* the unit directory a-H1.  Attributes range over what the policy reads.
Trees(aShapes, bShapes, rs) ==
    {a \cup b \cup c \cup f \cup n \cup r :
        a \in Absent \cup Units("debug", <<"a", "-">> \o H1, aShapes, rs),
        b \in Absent \cup Units("debug", <<"b", "-">> \o H2, bShapes, rs),
        c \in Absent \cup Units("debug", <<"c", "-">> \o H1, {<<1, {0}>>}, {Some(1)}),
        f \in Absent \cup Files("debug", "deps",
                                <<"a", "-">> \o H1 \o <<".", "1", ".", "o">>, {1}),
        n \in Absent \cup {{Entry("debug", IF sz = 1 THEN "root" ELSE "build",
                                  <<"a", "-">> \o Rep("a", HashLen - 1) \o <<".", "d">>,
                                  "file", sz, {}, None)} : sz \in {1, MaxSize}},
        r \in Absent \cup Units("release", <<"a", "-">> \o H1, {<<1, {0}>>}, {Some(2)})}

TreesFor(kind) ==
    IF kind = "size"
    THEN Trees({EmptyDir} \cup OneEntry(Sizes), OneEntry({1}), {Some(0)})
    ELSE IF kind = "age"
    THEN Trees({EmptyDir, OldAndFresh} \cup OneEntry({1}), OneEntry({1}), {Some(0)})
    ELSE Trees({<<1, {0}>>}, {<<1, {0}>>}, RustcValues)

Policies ==
    [kind : {"size"}, arg : 0..MaxTarget]
    \cup [kind : {"age"}, arg : 0..(MaxAge + 1)]
    \cup [kind : {"toolchain"},
           arg : {InsertAll(toolchain_set_new, outs) : outs \in {<<>>, <<1>>}}]

NoWalk == [starting_size |-> 0, size_to_remove |-> 0, order |-> <<>>,
           removed |-> 0, marked |-> {}, trail |-> <<>>]

NoCur == [profile |-> "none", idx |-> 0]

\* A profile with unit A (10 bytes, accessed now) and unit B (20 bytes,
\* accessed 100 days ago), swept with a cutoff of 30 days.
ExampleTree ==
    {Entry("debug", ".fingerprint", <<"a", "-">> \o H1, "dir", 10, {0}, None),
     Entry("debug", ".fingerprint", <<"b", "-">> \o H2, "dir", 20, {100}, None)}

ExamplePolicy == [kind |-> "age", arg |-> 30]

\* the roots with one unit directory in debug, one in release, nothing else
TwoProfileTrees(kind) ==
    {t \in TreesFor(kind) :
        /\ Cardinality(t) = 2
        /\ \A e \in t : e.dir = ".fingerprint"
        /\ {e.profile : e \in t} = Profiles}

\* the roots where the identity H1 has an artifact in each of build, deps,
\* native and the profile root, with its unit directory or without it (the
\* artifacts are then orphans), beside the unit b-H2
SpreadTrees ==
    {a \cup b \cup {Entry("debug", d, <<"a", "-">> \o H1 \o <<".", "1", ".", "o">>,
                          "file", 1, {}, None) :
                        d \in {"build", "deps", "native", "root"}} :
        a \in Absent \cup Units("debug", <<"a", "-">> \o H1, {<<1, {0}>>}, RustcValues),
        b \in Absent \cup Units("debug", <<"b", "-">> \o H2, {<<1, {0}>>}, RustcValues)}

\* build or deps of one profile is missing or cannot be read
Unreadable == {{<<p, d>>} : p \in Profiles, d \in {"build", "deps"}}

Init ==
    /\ \/ /\ policy \in Policies
          /\ tree \in TreesFor(policy.kind)
          /\ unreadable = {}
       \/ /\ policy = ExamplePolicy
          /\ tree = ExampleTree
          /\ unreadable = {}
       \/ /\ policy \in Policies
          /\ tree \in TwoProfileTrees(policy.kind)
          /\ unreadable \in Unreadable
       \/ /\ policy \in {c \in Policies : c.kind = "toolchain"}
          /\ tree \in SpreadTrees
          /\ unreadable \in {{}, {<<"debug", "deps">>}}
    /\ pc = "idle"
    /\ dry_run = FALSE
    /\ keep = [p \in Profiles |-> {}]
    /\ classified = {}
    /\ pending = {}
    /\ cur = NoCur
    /\ total = 0
    /\ walk = NoWalk
    /\ attempts = {}
    /\ failures = {}
    /\ old_size = 0
    /\ old_tree = {}
    /\ result = None
    /\ last = None
    /\ stamp = FALSE
    /\ criterion = "none"
    /\ unit_dir = <<>>
    /\ loaded = None
    /\ filename = <<>>
    /\ extracted = None
    /\ called = FALSE
    /\ rust_versions = None
    /\ rustup = None
    /\ rustc_out = <<>>
    /\ r_pc = "idle"
    /\ iter = <<>>
    /\ toolchain_set = {}
    /\ queried = <<>>
    /\ hashed = None

\* the fingerprint dirs under the root: debug, and release when it is there
FingerprintDirs(t) == {"debug"} \cup {e.profile : e \in t}

\* what is remembered of a sweep that returned
RunRecord ==
    [dry_run |-> dry_run, result |-> result, failed |-> failures # {},
     old_tree |-> old_tree, new_tree |-> tree]

\* the flag that selects each policy (main.rs, lines 206, 237, 251)
CriterionOf(kind) ==
    IF kind = "size" THEN "maxsize"
    ELSE IF kind = "toolchain" THEN "installed"
    ELSE "time"

\* main: one invocation of the sweep on the root, with or without --dry-run.
\* A second invocation repeats the criterion of the first and is the real
\* sweep (after a dry run, or after a real one).
Start(dry) ==
    /\ \/ pc = "idle"
       \/ pc = "done" /\ last = None /\ ~dry
    /\ last' = IF pc = "done" THEN Some(RunRecord) ELSE last
    /\ dry_run' = dry
    /\ old_size' = total_disk_space_dir(tree)
    /\ old_tree' = tree
    /\ total' = 0
    /\ attempts' = {}
    /\ failures' = {}
    /\ keep' = [p \in Profiles |-> {}]
    /\ classified' = {}
    /\ pending' = FingerprintDirs(tree)
    /\ cur' = NoCur
    /\ walk' = NoWalk
    /\ result' = None
    /\ pc' = IF policy.kind = "size" THEN "fits" ELSE "loop"
    /\ criterion' = CriterionOf(policy.kind)
    /\ UNCHANGED <<tree, policy, unreadable, stamp, codecVars, resolverVars, loaderVars>>

\* A plausible slip: < in place of <=.
already_below_target_strict(starting_size, target_size) ==
    starting_size < target_size

\* line 482
already_below_target(starting_size, target_size) == starting_size <= target_size

\* remove_older_until_fits, lines 481-485: already below target
AlreadyFits ==
    /\ pc = "fits"
    /\ already_below_target(total_disk_space_dir(tree), policy.arg)
    /\ walk' = [NoWalk EXCEPT !.starting_size = total_disk_space_dir(tree)]
    /\ result' = Some(0)
    /\ pc' = "done"
    /\ UNCHANGED <<tree, policy, dry_run, keep, classified, pending, cur, total,
                   attempts, failures, old_size, old_tree, last, unreadable, stamp, criterion, codecVars, resolverVars, loaderVars>>

\* the directories total_disk_space_in_a_profile reads with `?`
Sized(p) == {<<p, d>> : d \in {"build", "deps"}}

\* remove_older_until_fits, line 493: total_disk_space_in_a_profile fails on
\* a directory it cannot read and `?` returns the error
ClassifyFails ==
    /\ pc = "fits"
    /\ ~already_below_target(total_disk_space_dir(tree), policy.arg)
    /\ \E p \in pending : Sized(p) \cap unreadable # {}
    /\ walk' = [NoWalk EXCEPT !.starting_size = total_disk_space_dir(tree),
                              !.size_to_remove = total_disk_space_dir(tree) - policy.arg]
    /\ result' = Err
    /\ pc' = "done"
    /\ UNCHANGED <<tree, policy, dry_run, keep, classified, pending, cur, total,
                   attempts, failures, old_size, old_tree, last, unreadable, stamp, criterion, codecVars, resolverVars, loaderVars>>

\* remove_older_until_fits, lines 486-531: the order and the eviction walk
Classify ==
    /\ pc = "fits"
    /\ ~already_below_target(total_disk_space_dir(tree), policy.arg)
    /\ \A p \in pending : Sized(p) \cap unreadable = {}
    /\ LET starting_size  == total_disk_space_dir(tree)
           size_to_remove == starting_size - policy.arg
           order          == SortedOrder(tree, pending)
           st             == EvictionWalk(order, pending, size_to_remove)
       IN  /\ walk' = [starting_size |-> starting_size,
                       size_to_remove |-> size_to_remove,
                       order |-> order, removed |-> st.removed,
                       marked |-> st.marked, trail |-> st.trail]
           /\ keep' = [p \in Profiles |->
                          IF p \in pending THEN st.organized[p] ELSE {}]
    /\ classified' = pending
    /\ pc' = "loop"
    /\ UNCHANGED <<tree, policy, dry_run, pending, cur, total, attempts, failures,
                   old_size, old_tree, result, last, unreadable, stamp, criterion, codecVars, resolverVars, loaderVars>>

\* A plausible slip: the keep-set of a profile is computed when its sweep
\* begins, from what the sweeps before it have left.
SizeNext_reclassified(p) ==
    /\ pc = "loop"
    /\ policy.kind = "size"
    /\ p \in pending
    /\ pending' = pending \ {p}
    /\ keep' = [keep EXCEPT ![p] =
                   EvictionWalk(SortedOrder(tree, pending), pending,
                                total_disk_space_dir(tree) - policy.arg).organized[p]]
    /\ cur' = [profile |-> p, idx |-> 1]
    /\ pc' = "sweep"
    /\ UNCHANGED <<tree, policy, dry_run, classified, total, walk, attempts,
                   failures, old_size, old_tree, result, last, unreadable, stamp, criterion, codecVars, resolverVars, loaderVars>>

\* remove_older_until_fits, lines 535-537: the next (fing, keep) of organized
SizeNext(p) ==
    /\ pc = "loop"
    /\ policy.kind = "size"
    /\ p \in pending
    /\ pending' = pending \ {p}
    /\ cur' = [profile |-> p, idx |-> 1]
    /\ pc' = "sweep"
    /\ UNCHANGED <<tree, policy, dry_run, keep, classified, total, walk, attempts,
                   failures, old_size, old_tree, result, last, unreadable, stamp, criterion, codecVars, resolverVars, loaderVars>>

\* remove_older_than, lines 469-471: the next fingerprint dir and its keep-set
AgeNext(p) ==
    /\ pc = "loop"
    /\ policy.kind = "age"
    /\ p \in pending
    /\ pending' = pending \ {p}
    /\ keep' = [keep EXCEPT ![p] = load_all_fingerprints_newer_than(tree, p, policy.arg)]
    /\ classified' = classified \cup {p}
    /\ cur' = [profile |-> p, idx |-> 1]
    /\ pc' = "sweep"
    /\ UNCHANGED <<tree, policy, dry_run, total, walk, attempts, failures,
                   old_size, old_tree, result, last, unreadable, stamp, criterion, codecVars, resolverVars, loaderVars>>

\* remove_not_built_with, lines 448-450: the next fingerprint dir and its keep-set
ToolchainNext(p) ==
    /\ pc = "loop"
    /\ policy.kind = "toolchain"
    /\ p \in pending
    /\ pending' = pending \ {p}
    /\ keep' = [keep EXCEPT ![p] = load_all_fingerprints_built_with(tree, p, policy.arg)]
    /\ classified' = classified \cup {p}
    /\ cur' = [profile |-> p, idx |-> 1]
    /\ pc' = "sweep"
    /\ UNCHANGED <<tree, policy, dry_run, total, walk, attempts, failures,
                   old_size, old_tree, result, last, unreadable, stamp, criterion, codecVars, resolverVars, loaderVars>>

\* A plausible slip: the dry-run flag is not honoured.
Removed_nodry(doomed, failing, dry) == doomed \ failing

\* the entries that leave the disk: none in a dry run, else those whose
\* remove_file / remove_dir_all succeeds (lines 224-241)
Removed(doomed, failing, dry) == IF dry THEN {} ELSE doomed \ failing

\* A plausible slip: an entry is counted only when its removal succeeded.
Counted_onsuccess(doomed, failing) == SumSizes(doomed \ failing)

\* the bytes added to total_disk_space (lines 223, 233)
Counted(doomed, failing) == SumSizes(doomed)

\* A plausible slip: the first failure ends the loop over the directory.
Attempted_until_failure(doomed, failing) ==
    IF failing = {} THEN doomed ELSE failing

\* the entries the loop of lines 212-245 reaches: a failed removal is
\* warned about (lines 227, 237) and the loop goes on
Attempted(doomed, failing) == doomed

\* remove_not_matching_in_a_dir on the next tracked directory of the profile
\* (one call of lines 276-286).  A native directory that does not exist is
\* skipped, which is reading an empty one.  Some removals may fail.
SweepDir ==
    /\ pc = "sweep"
    /\ <<cur.profile, SweepDirs[cur.idx]>> \notin unreadable
    /\ LET d      == SweepDirs[cur.idx]
           doomed == Doomed(tree, cur.profile, d, keep[cur.profile])
       IN  \E failing \in SUBSET doomed :
           /\ dry_run => failing = {}
           /\ Cardinality(failures \cup failing) <= MaxFailures
           /\ LET reached == Attempted(doomed, failing)
              IN  /\ total' = total + Counted(reached, failing)
                  /\ tree' = tree \ Removed(reached, failing, dry_run)
                  /\ attempts' = attempts \cup reached
           /\ failures' = failures \cup failing
    /\ IF cur.idx < Len(SweepDirs)
       THEN /\ cur' = [cur EXCEPT !.idx = @ + 1]
            /\ pc' = "sweep"
       ELSE /\ cur' = NoCur
            /\ pc' = "loop"
    /\ UNCHANGED <<policy, dry_run, keep, classified, pending, walk, old_size,
                   old_tree, result, last, unreadable, stamp, criterion, codecVars, resolverVars, loaderVars>>

\* A plausible slip: build and deps are optional like native, and a
\* directory that is not there is passed over.
SweepDirSkips ==
    /\ pc = "sweep"
    /\ <<cur.profile, SweepDirs[cur.idx]>> \in unreadable
    /\ IF cur.idx < Len(SweepDirs)
       THEN /\ cur' = [cur EXCEPT !.idx = @ + 1]
            /\ pc' = "sweep"
       ELSE /\ cur' = NoCur
            /\ pc' = "loop"
    /\ UNCHANGED <<tree, policy, dry_run, keep, classified, pending, total, walk,
                   attempts, failures, old_size, old_tree, result, last, unreadable,
                   stamp, criterion, codecVars, resolverVars, loaderVars>>

\* fs::read_dir(dir)? (line 212) fails on the tracked directory reached:
\* remove_not_matching_in_a_dir, remove_not_built_with_in_a_profile and the
\* policy function return the error, whatever profiles are still to come
SweepDirFails ==
    /\ pc = "sweep"
    /\ <<cur.profile, SweepDirs[cur.idx]>> \in unreadable
    /\ result' = Err
    /\ cur' = NoCur
    /\ pc' = "done"
    /\ UNCHANGED <<tree, policy, dry_run, keep, classified, pending, total, walk,
                   attempts, failures, old_size, old_tree, last, unreadable, stamp, criterion, codecVars, resolverVars, loaderVars>>

\* the loop over the fingerprint dirs is over: Ok(total_disk_space)
Finish ==
    /\ pc = "loop"
    /\ pending = {}
    /\ result' = Some(total)
    /\ pc' = "done"
    /\ UNCHANGED <<tree, policy, dry_run, keep, classified, pending, cur, total,
                   walk, attempts, failures, old_size, old_tree, last, unreadable, stamp, criterion, codecVars, resolverVars, loaderVars>>

Next ==
    \/ \E dry \in BOOLEAN : Start(dry)
    \/ AlreadyFits
    \/ ClassifyFails
    \/ Classify
    \/ \E p \in Profiles : SizeNext(p)
    \/ \E p \in Profiles : AgeNext(p)
    \/ \E p \in Profiles : ToolchainNext(p)
    \/ SweepDir
    \/ SweepDirFails
    \/ Finish

vars == <<sweepVars, codecVars, resolverVars, loaderVars>>

Spec == Init /\ [][Next]_vars

(***************************************************************************)
(* StampSpec: main with --stamp and --file (main.rs, lines 201-220) and    *)
(* Timestamp (stamp.rs).  The sweep of a --file invocation is the age      *)
(* sweep with the time elapsed since the stamp as keep_duration.           *)
(***************************************************************************)
\* the roots: unit directories in debug and nothing else
StampTrees ==
    {t \in TreesFor("age") :
        \A e \in t : e.profile = "debug" /\ e.dir = ".fingerprint"}

StampInit ==
    /\ policy \in [kind : {"age"}, arg : 0..(MaxAge + 1)]
    /\ tree \in StampTrees
    /\ unreadable = {}
    /\ pc = "idle"
    /\ dry_run = FALSE
    /\ keep = [p \in Profiles |-> {}]
    /\ classified = {}
    /\ pending = {}
    /\ cur = NoCur
    /\ total = 0
    /\ walk = NoWalk
    /\ attempts = {}
    /\ failures = {}
    /\ old_size = 0
    /\ old_tree = {}
    /\ result = None
    /\ last = None
    /\ stamp \in BOOLEAN
    /\ criterion = "none"
    /\ unit_dir = <<>>
    /\ loaded = None
    /\ filename = <<>>
    /\ extracted = None
    /\ called = FALSE
    /\ rust_versions = None
    /\ rustup = None
    /\ rustc_out = <<>>
    /\ r_pc = "idle"
    /\ iter = <<>>
    /\ toolchain_set = {}
    /\ queried = <<>>
    /\ hashed = None

\* main with --stamp (lines 213-220): Timestamp::new().store(path), return
WriteStamp ==
    /\ pc \in {"idle", "done"}
    /\ stamp' = TRUE
    /\ criterion' = "stamp"
    /\ UNCHANGED <<tree, unreadable, policy, pc, dry_run, keep, classified, pending,
                   cur, total, walk, attempts, failures, old_size, old_tree, result,
                   last, codecVars, resolverVars, loaderVars>>

\* Timestamp::load (stamp.rs, lines 30-40): the file is read and then
\* removed; the function has no dry-run parameter
Timestamp_load(exists, dry) == FALSE

\* main with --file (lines 201-204), with or without --dry-run: the stamp
\* is loaded, the time elapsed since it is keep_duration, and the age sweep
\* of line 276 begins.  Without the stamp file main panics at line 202.
StartFromFile(dry, elapsed) ==
    /\ \/ pc = "idle"
       \/ pc = "done" /\ last = None /\ ~dry
    /\ stamp
    /\ stamp' = Timestamp_load(stamp, dry)
    /\ criterion' = "file"
    /\ policy' = [kind |-> "age", arg |-> elapsed]
    /\ last' = IF pc = "done" THEN Some(RunRecord) ELSE last
    /\ dry_run' = dry
    /\ old_size' = total_disk_space_dir(tree)
    /\ old_tree' = tree
    /\ total' = 0
    /\ attempts' = {}
    /\ failures' = {}
    /\ keep' = [p \in Profiles |-> {}]
    /\ classified' = {}
    /\ pending' = FingerprintDirs(tree)
    /\ cur' = NoCur
    /\ walk' = NoWalk
    /\ result' = None
    /\ pc' = "loop"
    /\ UNCHANGED <<tree, unreadable, codecVars, resolverVars, loaderVars>>

StampNext ==
    \/ WriteStamp
    \/ \E dry \in BOOLEAN, elapsed \in 0..(MaxAge + 1) : StartFromFile(dry, elapsed)
    \/ \E dry \in BOOLEAN : Start(dry)
    \/ \E p \in Profiles : AgeNext(p)
    \/ SweepDir
    \/ Finish

StampSpec == StampInit /\ [][StampNext]_vars

(***************************************************************************)
(* LoaderSpec: Fingerprint::load on one unit directory that can be read.   *)
(* An entry has a name and what happens when it is opened, read and        *)
(* deserialized.                                                           *)
(***************************************************************************)
Json == <<"j", "s", "o", "n">>

\* Path::extension: the text after the last dot of the file name; none
\* without a dot, and none when the only dot begins the name
extension(name) ==
    LET i == LastIndex(name, ".", Len(name))
    IN  IF i <= 1 THEN None ELSE Some(SubSeq(name, i + 1, Len(name)))

\* the errors of Fingerprint::load: `?` on File::open or read_to_string
\* (lines 68, 70), and the bail! of line 77
IoError == [some |-> FALSE, err |-> "io"]

NotFound == [some |-> FALSE, err |-> "did not find a fingerprint file"]

\* lines 64-77
RECURSIVE LoadFrom(_, _)
LoadFrom(entries, i) ==
    IF i > Len(entries) THEN NotFound
    ELSE LET e == entries[i]
         IN  IF extension(e.name) = Some(Json)
             THEN IF ~e.opens THEN IoError
                  ELSE IF ~e.reads THEN IoError
                  ELSE IF e.parsed.some THEN Some(e.parsed.val)
                  ELSE LoadFrom(entries, i + 1)
             ELSE LoadFrom(entries, i + 1)

Fingerprint_load(entries) == LoadFrom(entries, 1)

MaxFiles == 2

FileNames ==
    {<<"a", ".">> \o Json, <<".">> \o Json, Json, <<"a", ".">> \o Json \o <<".", "b">>,
     <<"a", ".", "b", ".">> \o Json}

\* a file that cannot be opened, one whose contents cannot be read as
\* text, one that is not a record, and the records of two toolchains
FileStates ==
    {[opens |-> FALSE, reads |-> FALSE, parsed |-> None],
     [opens |-> TRUE, reads |-> FALSE, parsed |-> None],
     [opens |-> TRUE, reads |-> TRUE, parsed |-> None]}
    \cup {[opens |-> TRUE, reads |-> TRUE, parsed |-> Some(v)] : v \in {0, 2}}

DirEntries ==
    {[name |-> n, opens |-> st.opens, reads |-> st.reads, parsed |-> st.parsed] :
        n \in FileNames, st \in FileStates}

RECURSIVE Listings(_)
Listings(n) ==
    IF n = 0 THEN {<<>>}
    ELSE Listings(n - 1)
         \cup {Append(l, e) : l \in {x \in Listings(n - 1) : Len(x) = n - 1},
                              e \in DirEntries}

LoaderInit ==
    /\ unit_dir \in Listings(MaxFiles)
    /\ loaded = None
    /\ filename = <<>>
    /\ extracted = None
    /\ called = FALSE
    /\ tree = {}
    /\ unreadable = {}
    /\ policy = [kind |-> "none", arg |-> 0]
    /\ pc = "idle"
    /\ dry_run = FALSE
    /\ keep = <<>>
    /\ classified = {}
    /\ pending = {}
    /\ cur = <<>>
    /\ total = 0
    /\ walk = <<>>
    /\ attempts = {}
    /\ failures = {}
    /\ old_size = 0
    /\ old_tree = {}
    /\ result = None
    /\ last = None
    /\ stamp = FALSE
    /\ criterion = "none"
    /\ rust_versions = None
    /\ rustup = None
    /\ rustc_out = <<>>
    /\ r_pc = "idle"
    /\ iter = <<>>
    /\ toolchain_set = {}
    /\ queried = <<>>
    /\ hashed = None

Load ==
    /\ loaded = None
    /\ loaded' = Fingerprint_load(unit_dir)
    /\ UNCHANGED <<unit_dir, sweepVars, codecVars, resolverVars>>

LoaderNext == Load

LoaderSpec == LoaderInit /\ [][LoaderNext]_vars

(***************************************************************************)
(* ResolverSpec: hash_toolchains.  A toolchain name is a &str; the         *)
(* environment is what `rustup toolchain list` prints and what each run of *)
(* `rustc [+name] -vV` gives.                                              *)
(***************************************************************************)
Digits == {"0", "1", "2", "3", "4", "5", "6", "7", "8", "9"}

is_ascii_digit(c) == c \in Digits

Channels ==
    {<<"s", "t", "a", "b", "l", "e">>, <<"b", "e", "t", "a">>,
     <<"n", "i", "g", "h", "t", "l", "y">>}

\* s.starts_with(prefix)
starts_with(s, prefix) ==
    Len(s) >= Len(prefix) /\ SubSeq(s, 1, Len(prefix)) = prefix

\* s.split(c): the segments of s between the occurrences of c
RECURSIVE Split(_, _)
Split(s, c) ==
    LET i == FirstIndex(s, c, 1)
    IN  IF i = 0 THEN <<s>>
        ELSE <<SubSeq(s, 1, i - 1)>> \o Split(SubSeq(s, i + 1, Len(s)), c)

\* the closure of line 323
is_number(seg) ==
    seg # <<>> /\ \A k \in 1..Len(seg) : is_ascii_digit(seg[k])

\* Iterator::all stops at the first segment that fails: the segments the
\* closure of lines 321-324 has counted
RECURSIVE CountedSegments(_, _)
CountedSegments(segs, i) ==
    IF i > Len(segs) THEN Len(segs)
    ELSE IF ~is_number(segs[i]) THEN i
    ELSE CountedSegments(segs, i + 1)

\* A plausible slip: the number of segments is not looked at.
is_custom_toolchain_anylength(toolchain) ==
    IF toolchain = <<>> THEN FALSE
    ELSE IF \E channel \in Channels :
                toolchain = channel \/ starts_with(toolchain, channel \o <<"-">>)
    THEN FALSE
    ELSE LET segs == Split(SplitFirst(toolchain, "-"), ".")
         IN  ~(\A k \in 1..Len(segs) : is_number(segs[k]))

is_custom_toolchain(toolchain) ==
    IF toolchain = <<>> THEN FALSE
    ELSE LET is_named_channel ==
                 \E channel \in Channels :
                     \/ toolchain = channel
                     \/ starts_with(toolchain, channel \o <<"-">>)
             first_segment   == SplitFirst(toolchain, "-")
             segs            == Split(first_segment, ".")
             all_numbers     == \A k \in 1..Len(segs) : is_number(segs[k])
             number_segments == CountedSegments(segs, 1)
             is_versioned_toolchain ==
                 all_numbers /\ (number_segments = 2 \/ number_segments = 3)
         IN  IF is_named_channel THEN FALSE
             ELSE IF is_versioned_toolchain THEN FALSE
             ELSE TRUE

\* A plausible slip: the names are not checked against the list.
inexistent_toolchain_unchecked(versions, detected_toolchains) == None

\* lines 412-414: the first name that `rustup toolchain list` does not show
inexistent_toolchain(versions, detected_toolchains) ==
    LET missing == {i \in 1..Len(versions) :
                       \A j \in 1..Len(detected_toolchains) :
                           detected_toolchains[j] # versions[i]}
    IN  IF missing = {} THEN None
        ELSE Some(versions[CHOOSE i \in missing : \A k \in missing : i <= k])

\* iter.map(Some)
MapSome(list) == [i \in 1..Len(list) |-> Some(list[i])]

\* the three ways hash_toolchains and lookup_from_names bail
NoRustup == [some |-> FALSE, err |-> "rustup toolchain list"]

Inexistent(name, detected_toolchains) ==
    [some |-> FALSE, err |-> "inexistent", toolchain |-> name,
     available |-> detected_toolchains]

NoFingerprint(name) ==
    [some |-> FALSE, err |-> "fingerprint", toolchain |-> name]

CannotRun == [some |-> FALSE, err |-> "failed to run rustc"]

\* what a run of rustc gives: it cannot be started, it exits with a
\* failure, or it prints the version text of a release
NotRun == [ran |-> FALSE, success |-> FALSE, stdout |-> 0]

Failure == [ran |-> TRUE, success |-> FALSE, stdout |-> 0]

Success(v) == [ran |-> TRUE, success |-> TRUE, stdout |-> v]

Outcomes == {NotRun, Failure} \cup {Success(v) : v \in Versions}

(***************************************************************************)
(* Bounded toolchain names: up to MaxSegs dot-separated pieces (empty, a   *)
(* digit, a letter) with or without a dash suffix, and the channel names,  *)
(* or a near miss of one, with or without a suffix.                        *)
(***************************************************************************)
MaxSegs == 4

Pieces == {<<>>, <<"1">>, <<"x">>}

RECURSIVE Dotted(_)
Dotted(n) ==
    IF n = 1 THEN Pieces
    ELSE {d \o <<".">> \o q : d \in Dotted(n - 1), q \in Pieces}

DottedUpTo == UNION {Dotted(n) : n \in 1..MaxSegs}

\* a name is a token of a command line or of rustup's list: never empty
ToolchainNames ==
    ({d \o suf : d \in DottedUpTo, suf \in {<<>>, <<"-">>, <<"-", "x">>}}
     \cup {c \o suf : c \in Channels \cup {<<"s", "t", "a", "g", "e">>},
                      suf \in {<<>>, <<"-">>, <<"-", "x">>, <<"x">>}})
    \ {<<>>}

\* the lists of names: any name, alone or before a channel or a custom name
NameLists ==
    {<<>>}
    \cup {<<n>> \o rest :
            n \in ToolchainNames,
            rest \in {<<>>, <<<<"s", "t", "a", "b", "l", "e">>>>, <<<<"x">>>>}}

Front(list) == SubSeq(list, 1, Len(list) - 1)

\* the caller's names and rustup's list: neither, the list alone, the names
\* without rustup, names that are all listed, names the first or the last
\* of which is not listed
Callers(list) ==
    {<<None, None>>, <<None, Some(list)>>, <<Some(list), None>>,
     <<Some(list), Some(list)>>}
    \cup (IF list = <<>> THEN {}
          ELSE {<<Some(list), Some(Tail(list))>>, <<Some(list), Some(Front(list))>>})

ResolverInit ==
    /\ \E list \in NameLists :
           /\ \E c \in Callers(list) :
                  /\ rust_versions = c[1]
                  /\ rustup = c[2]
           /\ rustc_out \in [1..(IF list = <<>> THEN 1 ELSE Len(list)) -> Outcomes]
    /\ r_pc = "start"
    /\ iter = <<>>
    /\ toolchain_set = {}
    /\ queried = <<>>
    /\ hashed = None
    /\ filename = <<>>
    /\ extracted = None
    /\ called = FALSE
    /\ tree = {}
    /\ unreadable = {}
    /\ policy = [kind |-> "none", arg |-> 0]
    /\ pc = "idle"
    /\ dry_run = FALSE
    /\ keep = <<>>
    /\ classified = {}
    /\ pending = {}
    /\ cur = <<>>
    /\ total = 0
    /\ walk = <<>>
    /\ attempts = {}
    /\ failures = {}
    /\ old_size = 0
    /\ old_tree = {}
    /\ result = None
    /\ last = None
    /\ stamp = FALSE
    /\ criterion = "none"
    /\ unit_dir = <<>>
    /\ loaded = None

\* hash_toolchains, lines 406-410: names were given and rustup gives no list
ValidateNoRustup ==
    /\ r_pc = "start"
    /\ rust_versions.some
    /\ ~rustup.some
    /\ hashed' = NoRustup
    /\ r_pc' = "done"
    /\ UNCHANGED <<rust_versions, rustup, rustc_out, iter, toolchain_set, queried,
                   sweepVars, codecVars, loaderVars>>

\* hash_toolchains, lines 412-420: a given name is not in rustup's list
ValidateInexistent ==
    /\ r_pc = "start"
    /\ rust_versions.some
    /\ rustup.some
    /\ inexistent_toolchain(rust_versions.val, rustup.val).some
    /\ hashed' = Inexistent(inexistent_toolchain(rust_versions.val, rustup.val).val,
                            rustup.val)
    /\ r_pc' = "done"
    /\ UNCHANGED <<rust_versions, rustup, rustc_out, iter, toolchain_set, queried,
                   sweepVars, codecVars, loaderVars>>

\* hash_toolchains, line 423, entering lookup_from_names (lines 336-339)
UseSpecified ==
    /\ r_pc = "start"
    /\ rust_versions.some
    /\ rustup.some
    /\ ~inexistent_toolchain(rust_versions.val, rustup.val).some
    /\ iter' = MapSome(rust_versions.val)
    /\ toolchain_set' = toolchain_set_new
    /\ r_pc' = "lookup"
    /\ UNCHANGED <<rust_versions, rustup, rustc_out, queried, hashed,
                   sweepVars, codecVars, loaderVars>>

\* A plausible slip: without rustup nothing is queried.
bare_rustc_unqueried == <<>>

\* line 432: the one call of rustc without a toolchain selector
bare_rustc == <<None>>

\* hash_toolchains, lines 425-435: every installed toolchain, or bare rustc
UseInstalled ==
    /\ r_pc = "start"
    /\ ~rust_versions.some
    /\ iter' = IF rustup.some THEN MapSome(rustup.val) ELSE bare_rustc
    /\ toolchain_set' = toolchain_set_new
    /\ r_pc' = "lookup"
    /\ UNCHANGED <<rust_versions, rustup, rustc_out, queried, hashed,
                   sweepVars, codecVars, loaderVars>>

\* the toolchain of line 352: the name, or "" for the bare rustc
NameOf(x) == IF x.some THEN x.val ELSE <<>>

\* lookup_from_names, lines 340-376: one turn of the loop
Query ==
    /\ r_pc = "lookup"
    /\ iter # <<>>
    /\ LET x   == Head(iter)
           out == rustc_out[Len(queried) + 1]
       IN  /\ queried' = Append(queried, x)
           /\ IF ~out.ran
              THEN /\ hashed' = CannotRun
                   /\ r_pc' = "done"
                   /\ UNCHANGED <<iter, toolchain_set>>
              ELSE IF ~out.success
              THEN IF is_custom_toolchain(NameOf(x))
                   THEN /\ iter' = Tail(iter)
                        /\ UNCHANGED <<toolchain_set, hashed, r_pc>>
                   ELSE /\ hashed' = NoFingerprint(NameOf(x))
                        /\ r_pc' = "done"
                        /\ UNCHANGED <<iter, toolchain_set>>
              ELSE /\ toolchain_set' = toolchain_set_insert(toolchain_set, out.stdout)
                   /\ iter' = Tail(iter)
                   /\ UNCHANGED <<hashed, r_pc>>
    /\ UNCHANGED <<rust_versions, rustup, rustc_out, sweepVars, codecVars, loaderVars>>

\* lookup_from_names, line 377, and hash_toolchains, line 438
ReturnSet ==
    /\ r_pc = "lookup"
    /\ iter = <<>>
    /\ hashed' = Some(toolchain_set)
    /\ r_pc' = "done"
    /\ UNCHANGED <<rust_versions, rustup, rustc_out, iter, toolchain_set, queried,
                   sweepVars, codecVars, loaderVars>>

ResolverNext ==
    \/ ValidateNoRustup
    \/ ValidateInexistent
    \/ UseSpecified
    \/ UseInstalled
    \/ Query
    \/ ReturnSet

ResolverSpec == ResolverInit /\ [][ResolverNext]_vars

(***************************************************************************)
(* Reference readings of the filename, used by the properties below.       *)
(***************************************************************************)
\* the name with every character from its first dot on removed
Stem(fname) ==
    IF \E i \in 1..Len(fname) : fname[i] = "."
    THEN SubSeq(fname, 1, (CHOOSE i \in 1..Len(fname) :
                              /\ fname[i] = "."
                              /\ \A j \in 1..(i - 1) : fname[j] # ".") - 1)
    ELSE fname

\* the name with one extension removed: everything from the last dot on
StripOneExtension(fname) ==
    IF \E i \in 1..Len(fname) : fname[i] = "."
    THEN SubSeq(fname, 1, (CHOOSE i \in 1..Len(fname) :
                              /\ fname[i] = "."
                              /\ \A j \in (i + 1)..Len(fname) : fname[j] # ".") - 1)
    ELSE fname

IsHash(h) ==
    /\ Len(h) = HashLen
    /\ \A k \in 1..Len(h) : h[k] \in HexDigits

\* s reads  prefix '-' hash  with a prefix of at least minPre characters
EndsWithDashHash(s, minPre) ==
    /\ Len(s) >= minPre + 1 + HashLen
    /\ s[Len(s) - HashLen] = "-"
    /\ IsHash(SubSeq(s, Len(s) - HashLen + 1, Len(s)))

\* the text after the last dash of s when it is a hash that a dash precedes
DashHashOf(s) ==
    IF EndsWithDashHash(s, 0)
    THEN Some(SubSeq(s, Len(s) - HashLen + 1, Len(s)))
    ELSE None

NumDots(fname) == Cardinality({i \in 1..Len(fname) : fname[i] = "."})

(***************************************************************************)
(* Properties of hash_from_path_name (CodecSpec)                           *)
(***************************************************************************)
\* C9: hash_from_path_name returns Some only when the text after the last
\* dash (of the name up to its extension) is exactly 16 hex characters and
\* the dash separates it from a non-empty prefix.
C9_SomeOnlyAfterNonEmptyPrefix ==
    (called /\ extracted.some) =>
        /\ IsHash(extracted.val)
        /\ DashHashOf(Stem(filename)) = extracted
        /\ EndsWithDashHash(Stem(filename), 1)

\* C10 as stated: the result equals "strip one extension, then take the
\* text after the last dash" for every filename.
C10_SingleExtensionReference ==
    called => extracted = DashHashOf(StripOneExtension(filename))

\* C10 as amended: the result equals "cut the name at its first dot (every
\* extension removed), then take the text after the last dash" for every
\* filename; it equals the single-extension reading for every filename
\* that holds at most one dot.
C10_FirstDotReference ==
    called =>
        /\ extracted = DashHashOf(Stem(filename))
        /\ NumDots(filename) <= 1 =>
               extracted = DashHashOf(StripOneExtension(filename))

\* a name with several dots is accepted although its single-extension
\* reading is not
C10_Witness ==
    /\ called
    /\ NumDots(filename) >= 2
    /\ extracted.some
    /\ DashHashOf(StripOneExtension(filename)) = None

(***************************************************************************)
(* Properties of the sweep (Spec)                                          *)
(***************************************************************************)
Running == pc # "idle"

Done == pc = "done"

\* the sweep under way, or just over, is the size policy past its planning
SizeClassified ==
    /\ policy.kind = "size"
    /\ pc \in {"loop", "sweep", "done"}
    /\ old_size > policy.arg

\* the entries of t that carry no identity
NoIdentity(t) == {e \in t : HashOf[e.name] = None}

\* the unit directories of t that carry an identity
IdentifiedUnits(t) ==
    {e \in t : e.dir = ".fingerprint" /\ e.kind = "dir" /\ HashOf[e.name].some}

\* the bytes of the identity of unit directory u within its profile
UnitSize(t, u) ==
    SumSizes({e \in t : e.profile = u.profile /\ HashOf[e.name] = HashOf[u.name]})

Kept(u) == HashOf[u.name].val \in keep[u.profile]

\* no two unit directories of a profile carry the same identity
NoSharedIdentity(t) ==
    \A u, v \in IdentifiedUnits(t) :
        (u.profile = v.profile /\ HashOf[u.name] = HashOf[v.name]) => u = v

\* C1: when the total size under the root is at most the target,
\* remove_older_until_fits returns 0 and deletes nothing (the tree is
\* unchanged), in a dry run and in a real run.
C1_NoOpWhenFits ==
    (policy.kind = "size" /\ Running /\ old_size <= policy.arg) =>
        /\ tree = old_tree
        /\ attempts = {}
        /\ total = 0
        /\ Done => result = Some(0)

\* a real size sweep returned on a non-empty tree that already fits
C1_Witness ==
    /\ policy.kind = "size"
    /\ Done
    /\ ~dry_run
    /\ old_size <= policy.arg
    /\ IdentifiedUnits(old_tree) # {}
    /\ result = Some(0)

C3_BelowMaxsizeAfterSweep ==
    (policy.kind = "size" /\ Done /\ ~dry_run /\ result.some
       /\ failures = {} /\ old_size > policy.arg) =>
        total_disk_space_dir(tree) < policy.arg

\* C4: under the size policy no unit is evicted while a strictly older unit
\* (larger last-used elapsed time) is kept: the evicted units are the
\* stalest ones.
C4_NoOlderUnitKept ==
    (SizeClassified /\ NoSharedIdentity(old_tree)) =>
        \A u, v \in IdentifiedUnits(old_tree) :
            (~Kept(u) /\ Kept(v)) => last_used_time(v) <= last_used_time(u)

\* C5: a dry-run sweep followed by a real sweep of the same tree, under the
\* same policy, return the same byte count.
C5_DryRunAgreesWithRealRun ==
    (Done /\ ~dry_run /\ last.some /\ last.val.dry_run) =>
        /\ old_tree = last.val.old_tree
        /\ result = last.val.result

\* a real sweep that freed bytes returned after a dry run
C5_Witness ==
    /\ Done
    /\ ~dry_run
    /\ last.some
    /\ last.val.dry_run
    /\ result.some
    /\ result.val > 0
    /\ failures # {}

\* C6: a sweep with dry_run = true leaves every file and directory of the
\* build tree in place (total size before equals total size after).
C6_DryRunDeletesNothing ==
    (Running /\ dry_run) =>
        /\ tree = old_tree
        /\ total_disk_space_dir(tree) = old_size

\* a dry run returned after reporting entries it would remove
C6_Witness ==
    /\ Done
    /\ dry_run
    /\ attempts # {}
    /\ result.some
    /\ result.val > 0

\* C7: after a real sweep the returned byte count equals the decrease of
\* the tree's total size: new_size = old_size - cleaned.
C7_BytesFreedAccounting ==
    (Done /\ ~dry_run /\ result.some) =>
        total_disk_space_dir(tree) = old_size - result.val

\* C8: under every policy and keep-set an entry of a tracked directory
\* whose name yields no identity is never deleted and never counted in the
\* bytes freed.
C8_NonArtifactsUntouched ==
    Running =>
        /\ \A e \in NoIdentity(old_tree) : e \in tree /\ e \notin attempts
        /\ total = SumSizes(attempts)

\* a real sweep with empty keep-sets returned, deleting artifacts beside an
\* entry that carries no identity
C8_Witness ==
    /\ Done
    /\ ~dry_run
    /\ \A p \in Profiles : keep[p] = {}
    /\ NoIdentity(old_tree) # {}
    /\ attempts # {}
    /\ failures = {}

\* the entries of t that carry the identity of unit directory u, in its profile
OfUnit(t, u) ==
    {e \in t : e.profile = u.profile /\ HashOf[e.name] = HashOf[u.name]}

\* the unit directories whose profile has its keep-set computed
ClassifiedUnits ==
    {u \in IdentifiedUnits(old_tree) : u.profile \in classified}

\* C11 as stated: under every policy a unit whose fingerprint record names
\* toolchain identity 0 is in the keep-set and none of its artifacts is
\* deleted.
C11_SentinelKeptByEveryPolicy ==
    Running =>
        \A u \in ClassifiedUnits :
            u.rustc = Some(0) =>
                /\ Kept(u)
                /\ OfUnit(old_tree, u) \subseteq tree

\* C11 as amended: under the toolchain policy, whose identity set
\* lookup_from_names always seeds with 0, a unit whose record names
\* identity 0 is in the keep-set and no entry of its identity in its
\* profile is deleted or counted.
C11_SentinelKeptByToolchainPolicy ==
    (policy.kind = "toolchain" /\ Running) =>
        \A u \in ClassifiedUnits :
            u.rustc = Some(0) =>
                /\ Kept(u)
                /\ OfUnit(old_tree, u) \subseteq tree
                /\ OfUnit(old_tree, u) \cap attempts = {}

\* a real toolchain sweep deleted something beside a unit of identity 0,
\* with no toolchain resolved
C11_Witness ==
    /\ policy.kind = "toolchain"
    /\ policy.arg = {0}
    /\ Done
    /\ ~dry_run
    /\ \E u \in IdentifiedUnits(old_tree) : u.rustc = Some(0) /\ u \in tree
    /\ attempts \ failures # {}

\* C12: under the toolchain policy, for every identity set, a unit
\* directory whose Fingerprint::load fails has its identity in the
\* keep-set, and the scan goes on: the units of an installed toolchain are
\* kept too and the sweep returns Ok when every tracked directory is read.
C12_ToolchainFailOpen ==
    (policy.kind = "toolchain" /\ Running) =>
        /\ \A u \in ClassifiedUnits :
               (~u.rustc.some \/ u.rustc.val \in policy.arg) => Kept(u)
        /\ (Done /\ unreadable = {}) => result.some

\* a unit without a record was kept while a unit of a toolchain that is not
\* installed was deleted from the same profile
C12_Witness ==
    /\ policy.kind = "toolchain"
    /\ Done
    /\ ~dry_run
    /\ \E u, v \in IdentifiedUnits(old_tree) :
           /\ u.profile = v.profile
           /\ u.rustc = None
           /\ u \in tree
           /\ v.rustc.some
           /\ v \notin tree

\* C13: with keep_duration = 0 load_all_fingerprints_newer_than returns an
\* empty keep-set for every profile, and a real sweep that returns Ok with
\* every removal succeeding deletes every entry that carries an identity.
C13_CutoffZeroRetainsNothing ==
    (policy.kind = "age" /\ policy.arg = 0 /\ Running) =>
        /\ \A p \in classified : keep[p] = {}
        /\ (Done /\ ~dry_run /\ result.some /\ failures = {}) =>
               tree = NoIdentity(old_tree)

\* a real sweep with cutoff 0 deleted a unit accessed just now
C13_Witness ==
    /\ policy.kind = "age"
    /\ policy.arg = 0
    /\ Done
    /\ ~dry_run
    /\ result.some
    /\ \E u \in IdentifiedUnits(old_tree) : last_used_time(u) = 0 /\ u \notin tree

\* C14 as stated: a unit whose last-used elapsed time equals the cutoff is
\* retained (its identity is in the keep-set).
C14_BoundaryRetained ==
    (policy.kind = "age" /\ Running) =>
        \A u \in ClassifiedUnits :
            last_used_time(u) = policy.arg => Kept(u)

\* C14 as amended: an identity is in the keep-set exactly when a unit
\* directory of that identity, in the profile, was last used strictly less
\* than the cutoff ago; a unit whose elapsed time equals the cutoff is kept
\* by no means of its own.
C14_BoundaryNotRetained ==
    (policy.kind = "age" /\ Running) =>
        \A u \in ClassifiedUnits :
            Kept(u) <=>
                \E v \in OfUnit(old_tree, u) :
                    /\ v \in IdentifiedUnits(old_tree)
                    /\ last_used_time(v) < policy.arg

\* a unit last used exactly the (non-zero) cutoff ago was deleted
C14_Witness ==
    /\ policy.kind = "age"
    /\ policy.arg > 0
    /\ Done
    /\ ~dry_run
    /\ \E u \in IdentifiedUnits(old_tree) :
           /\ u.accessed # {}
           /\ last_used_time(u) = policy.arg
           /\ u \notin tree

\* the sweep before this one was a real one that returned Ok, no removal failing
AfterSuccessfulSweep ==
    /\ last.some
    /\ ~last.val.dry_run
    /\ last.val.result.some
    /\ ~last.val.failed

DirIndex(d) == CHOOSE i \in 1..Len(SweepDirs) : SweepDirs[i] = d

\* C16: when a removal fails in a real sweep whose tracked directories can
\* all be read, the sweep returns Ok and every entry whose identity is not
\* in the keep-set of its profile is attempted, the others of them deleted.
C16_DeletionFailureNonFatal ==
    (Done /\ ~dry_run /\ failures # {} /\ unreadable = {}) =>
        /\ result.some
        /\ \A e \in old_tree :
               (HashOf[e.name].some /\ HashOf[e.name].val \notin keep[e.profile]) =>
                   /\ e \in attempts
                   /\ e \notin failures => e \notin tree

\* after a removal failed in deps, an entry of a later tracked directory of
\* the profile was deleted
C16_Witness ==
    /\ Done
    /\ ~dry_run
    /\ result.some
    /\ unreadable = {}
    /\ \E f \in failures :
           \E e \in attempts \ (failures \cup tree) :
               e.profile = f.profile /\ DirIndex(e.dir) > DirIndex(f.dir)

\* C17: when a tracked directory of one profile cannot be read, every other
\* profile under the root is still taken up and swept.
C17_RemainingProfilesProcessed ==
    (Done /\ unreadable # {}) =>
        \A q \in FingerprintDirs(old_tree) :
            (\A x \in unreadable : x[1] # q) => q \notin pending

(***************************************************************************)
(* Claims about the toolchain resolver (ResolverSpec).                     *)
(***************************************************************************)
\* the names hash_toolchains hands to lookup_from_names
Source ==
    IF rust_versions.some THEN MapSome(rust_versions.val)
    ELSE IF rustup.some THEN MapSome(rustup.val)
    ELSE <<None>>

IsError(h) == ~h.some /\ h # None

Succeeded == {i \in 1..Len(queried) : rustc_out[i].ran /\ rustc_out[i].success}

\* C18: whenever the resolver returns Ok, the set holds the sentinel 0 and,
\* for every toolchain whose version query succeeded, the current-scheme and
\* the legacy-scheme hash of its version output, and nothing else.
C18_ResultSet ==
    hashed.some =>
        hashed.val = {0}
                     \cup {hash_u64(rustc_out[i].stdout) : i \in Succeeded}
                     \cup {hash_u64_old(rustc_out[i].stdout) : i \in Succeeded}

\* Ok after two queries, one that succeeded and one that was skipped
C18_Witness ==
    /\ hashed.some
    /\ Len(queried) = 2
    /\ Cardinality(Succeeded) = 1
    /\ Cardinality(hashed.val) = 3

\* stable, beta or nightly, alone or followed by "-..."
RefChannel(name) ==
    \E channel \in Channels :
        /\ Len(name) >= Len(channel)
        /\ \A k \in 1..Len(channel) : name[k] = channel[k]
        /\ Len(name) > Len(channel) => name[Len(channel) + 1] = "-"

\* the first dash-separated segment is digits "." digits, or
\* digits "." digits "." digits
RefVersioned(name) ==
    LET dash == {k \in 1..Len(name) : name[k] = "-"}
        n    == IF dash = {} THEN Len(name)
                ELSE (CHOOSE k \in dash : \A m \in dash : k <= m) - 1
        dots == {k \in 1..n : name[k] = "."}
    IN  /\ n > 0
        /\ \A k \in 1..n : name[k] \in Digits \cup {"."}
        /\ Cardinality(dots) \in {1, 2}
        /\ 1 \notin dots /\ n \notin dots
        /\ \A k \in dots : k + 1 \notin dots

RefStandard(x) == ~x.some \/ RefChannel(x.val) \/ RefVersioned(x.val)

\* the query of the i-th name ran and exited with a failure status
ExitedWithFailure(i) == rustc_out[i].ran /\ ~rustc_out[i].success

\* the query of the i-th name could not be started
NotStarted(i) == ~rustc_out[i].ran

\* the i-th query ended the resolution with an error
HardErrorAt(i) == i = Len(queried) /\ IsError(hashed)

\* the i-th query was passed over and the loop went on to the names after it
SkippedAt(i) ==
    /\ ~HardErrorAt(i)
    /\ queried = SubSeq(Source, 1, Len(queried))
    /\ r_pc = "lookup" => iter = SubSeq(Source, Len(queried) + 1, Len(Source))
    /\ hashed.some => Len(queried) = Len(Source)

\* C19 as stated: a failing query for a channel name, a 2- or 3-segment
\* numeric version or the default compiler is a hard error; a failing query
\* for any other non-empty name is skipped and the remaining toolchains are
\* still resolved.  (A query fails when it exits with a failure status or
\* cannot be started.)
C19_FailingQueryClassified ==
    \A i \in 1..Len(queried) :
        (ExitedWithFailure(i) \/ NotStarted(i)) =>
            IF RefStandard(queried[i]) THEN HardErrorAt(i) ELSE SkippedAt(i)

\* C19, amended: a query that exits with a failure status is a hard error
\* for a channel name, a 2- or 3-segment numeric version and the default
\* compiler, and is skipped, the remaining toolchains still being resolved,
\* for any other non-empty name; a query that cannot be started is a hard
\* error for every name.
C19_ExitFailureClassified ==
    \A i \in 1..Len(queried) :
        /\ ExitedWithFailure(i) =>
               IF RefStandard(queried[i]) THEN HardErrorAt(i) ELSE SkippedAt(i)
        /\ NotStarted(i) => HardErrorAt(i)

\* a one-segment number exited with a failure, was skipped, and the channel
\* after it was resolved
C19_Witness ==
    /\ hashed.some
    /\ Len(queried) = 2
    /\ queried[1] = Some(<<"1">>)
    /\ ExitedWithFailure(1)
    /\ 2 \in Succeeded

Listed(name) == rustup.some /\ \E j \in 1..Len(rustup.val) : rustup.val[j] = name

Unlisted == {i \in 1..Len(rust_versions.val) : ~Listed(rust_versions.val[i])}

\* C20: when explicit names are given, every name is checked against the
\* installed-toolchain list before any compiler query is made; a name that
\* is not in the list gives a hard error that lists the installed
\* toolchains, with no toolchain queried and no identity set returned.
C20_ExplicitNamesValidatedFirst ==
    rust_versions.some =>
        /\ queried # <<>> => Unlisted = {}
        /\ (rustup.some /\ Unlisted # {}) =>
               /\ queried = <<>>
               /\ ~hashed.some
               /\ r_pc = "done" =>
                      /\ hashed.err = "inexistent"
                      /\ hashed.toolchain \in {rust_versions.val[i] : i \in Unlisted}
                      /\ hashed.available = rustup.val

\* two names were given, the first is installed and the second is not
C20_Witness ==
    /\ r_pc = "done"
    /\ rust_versions.some
    /\ rustup.some
    /\ Unlisted = {2}
    /\ IsError(hashed)
    /\ queried = <<>>

\* both identities of the default compiler, and the sentinel
BareIdentities ==
    {0, hash_u64(rustc_out[1].stdout), hash_u64_old(rustc_out[1].stdout)}

JudgedOn(t) ==
    LET profs          == FingerprintDirs(t)
        starting_size  == total_disk_space_dir(t)
        order          == SortedOrder(t, profs)
    IN  [starting_size |-> starting_size,
         order |-> order,
         organized |-> EvictionWalk(order, profs, starting_size - policy.arg).organized]

\* C22: under the size policy the root total, the sizes, the last-used times
\* and the keep-set of every profile are those of the tree as it was before
\* the first deletion: whenever the sweep of a profile is about to begin or
\* has ended, every profile has been classified and its keep-set is the one
\* computed on the pre-eviction tree.
C22_ClassifiedBeforeFirstDeletion ==
    (policy.kind = "size" /\ (pc = "loop" \/ (Done /\ classified # {}))) =>
        LET before == JudgedOn(old_tree)
        IN  /\ classified = FingerprintDirs(old_tree)
            /\ walk.starting_size = before.starting_size
            /\ walk.order = before.order
            /\ \A p \in FingerprintDirs(old_tree) :
                   keep[p] = before.organized[p]

\* the sweep of the second profile is about to begin after the first lost
\* entries, and judging it on what is left would give another keep-set
C22_Witness ==
    /\ policy.kind = "size"
    /\ pc = "loop"
    /\ Cardinality(pending) = 1
    /\ tree # old_tree
    /\ Cardinality(FingerprintDirs(old_tree)) = 2
    /\ \E p \in pending : JudgedOn(tree).organized[p] # keep[p]

(***************************************************************************)
(* Claims about the stamp file (StampSpec).                                *)
(***************************************************************************)
\* C23: after --stamp the file sweep.timestamp exists; a dry-run sweep with
\* --file leaves the stamp file in place; a real sweep with --file removes
\* it.
C23_StampFileAndDryRun ==
    /\ criterion = "stamp" => stamp
    /\ (criterion = "file" /\ dry_run) => stamp
    /\ (criterion = "file" /\ ~dry_run) => ~stamp

(***************************************************************************)
(* Claims about the toolchain policy and the sweeper (Spec).               *)
(***************************************************************************)
\* each identity of the profile of u names one unit directory
OneDirPerIdentity(t, p) ==
    \A u, v \in UnitDirs(t, p) :
        (HashOf[u.name].some /\ HashOf[u.name] = HashOf[v.name]) => u = v

\* C24: under the toolchain policy, in a profile where each identity names
\* one unit directory, a unit whose record loads with a toolchain identity
\* outside the given set is absent from the keep-set, and a real sweep that
\* returns Ok removes every entry of its identity in the profile (one whose
\* removal fails is warned about and stays); a unit whose loaded identity is
\* in the set is kept, with every entry of its identity.
C24_ToolchainEviction ==
    (policy.kind = "toolchain" /\ Running) =>
        \A u \in ClassifiedUnits :
            (OneDirPerIdentity(old_tree, u.profile) /\ u.rustc.some) =>
                IF u.rustc.val \in policy.arg
                THEN /\ Kept(u)
                     /\ OfUnit(old_tree, u) \subseteq tree
                ELSE /\ ~Kept(u)
                     /\ (Done /\ result.some /\ ~dry_run) =>
                            /\ OfUnit(old_tree, u) \subseteq attempts
                            /\ OfUnit(old_tree, u) \cap tree \subseteq failures

\* a unit of a toolchain that is not installed lost its directory and its
\* artifacts in build, deps, native and the profile root, while the unit of
\* an installed toolchain was kept
C24_Witness ==
    /\ policy.kind = "toolchain"
    /\ Done
    /\ ~dry_run
    /\ result.some
    /\ \E u, v \in IdentifiedUnits(old_tree) :
           /\ u.rustc.some /\ u.rustc.val \notin policy.arg
           /\ {e.dir : e \in OfUnit(old_tree, u)} =
                  {"build", "deps", "native", "root", ".fingerprint"}
           /\ OfUnit(old_tree, u) \cap tree = {}
           /\ v.rustc.some /\ v.rustc.val \in policy.arg /\ v.rustc.val # 0
           /\ v \in tree

(***************************************************************************)
(* Claims about Fingerprint::load (LoaderSpec).                            *)
(***************************************************************************)
\* the entries with the json extension that deserialize
Deserialize ==
    {i \in 1..Len(unit_dir) :
        /\ extension(unit_dir[i].name) = Some(Json)
        /\ unit_dir[i].opens /\ unit_dir[i].reads /\ unit_dir[i].parsed.some}

\* C25: Fingerprint::load returns the first .json file of the unit
\* directory that deserializes, and fails only if none does: a candidate
\* that cannot be opened, read or parsed does not hide a later one.
C25_FirstParseableWins ==
    loaded # None =>
        IF Deserialize = {}
        THEN ~loaded.some
        ELSE loaded =
                 unit_dir[CHOOSE i \in Deserialize : \A k \in Deserialize : i <= k].parsed

\* C26: .fingerprint is the last tracked directory a sweep processes in a
\* profile: at every point of a sweep, a unit directory that has left
\* .fingerprint has had every artifact of its identity in build, deps,
\* native and the profile root processed before.
C26_MarkerDirectorySweptLast ==
    Running =>
        \A u \in IdentifiedUnits(old_tree) :
            u \notin tree =>
                {e \in OfUnit(old_tree, u) : e.dir # ".fingerprint"} \subseteq attempts

\* a real sweep has reached .fingerprint: the artifact of an evicted
\* identity is gone from deps and its unit directory is still there
C26_Witness ==
    /\ pc = "sweep"
    /\ ~dry_run
    /\ SweepDirs[cur.idx] = ".fingerprint"
    /\ \E u \in IdentifiedUnits(old_tree) :
           /\ u.profile = cur.profile
           /\ ~Kept(u)
           /\ u \in tree
           /\ \E e \in OfUnit(old_tree, u) : e.dir = "deps" /\ e \notin tree

\* the identities of the unit directories of a profile
UnitIdentities(t, p) ==
    {HashOf[u.name].val : u \in {v \in UnitDirs(t, p) : HashOf[v.name].some}}

\* the hash-named entries of a profile whose identity no unit directory has
Orphans(t, p) ==
    {e \in t : /\ e.profile = p
               /\ HashOf[e.name].some
               /\ HashOf[e.name].val \notin UnitIdentities(t, p)}

\* C27: under every policy, the keep-set of a swept profile holds only
\* identities of directories in its .fingerprint, so a hash-named entry of
\* the profile whose identity no unit directory has is never kept: a sweep
\* that returns Ok counts it, and a real one removes it (unless the removal
\* itself fails).
C27_OrphansEvicted ==
    Running =>
        \A p \in classified :
            /\ keep[p] \subseteq UnitIdentities(old_tree, p)
            /\ (Done /\ result.some) =>
                   \A e \in Orphans(old_tree, p) :
                       /\ e \in attempts
                       /\ ~dry_run => (e \in tree => e \in failures)

\* a real sweep removed orphans from build, deps, native and the profile
\* root and kept a unit directory
C27_Witness ==
    /\ Done
    /\ ~dry_run
    /\ result.some
    /\ {e.dir : e \in Orphans(old_tree, "debug") \ tree} =
           {"build", "deps", "native", "root"}
    /\ \E u \in IdentifiedUnits(old_tree) : u \in tree

\* the sum of index[h] over the identities h of hs
RECURSIVE SumIndex(_, _)
SumIndex(index, hs) ==
    IF hs = {} THEN 0
    ELSE LET h == CHOOSE x \in hs : TRUE
         IN  index[h] + SumIndex(index, hs \ {h})

\* what the size index of profile p attributes to the identities that are
\* not in keepset
IndexedOutside(t, p, keepset) ==
    LET index == total_disk_space_in_a_profile(t, p)
    IN  SumIndex(index, DOMAIN index \ keepset)

\* C28: the byte count a sweep returns is, profile by profile, the sum of
\* total_disk_space_in_a_profile[h] over the identities h of the index that
\* are not in the profile's keep-set.
C28_IndexAndSweeperAgree ==
    (Done /\ result.some /\ classified # {}) =>
        result.val =
            IndexedOutside(old_tree, "debug", keep["debug"])
            + (IF "release" \in classified
               THEN IndexedOutside(old_tree, "release", keep["release"])
               ELSE 0)

\* a sweep of one profile counted an evicted identity that has entries in
\* .fingerprint and in another tracked directory, and kept another identity
C28_Witness ==
    /\ Done
    /\ result.some
    /\ classified = {"debug"}
    /\ keep["debug"] # {}
    /\ result.val >= 2
    /\ \E u \in IdentifiedUnits(old_tree) :
           /\ ~Kept(u)
           /\ \E e \in OfUnit(old_tree, u) : e.dir # ".fingerprint"

(***************************************************************************)
(* Claims about the eviction walk of the size policy (Spec).               *)
(***************************************************************************)
\* the sizes of the tuples of order at the positions of ps, summed
RECURSIVE SumAt(_, _)
SumAt(order, ps) ==
    IF ps = {} THEN 0
    ELSE LET i == CHOOSE x \in ps : TRUE
         IN  order[i][2] + SumAt(order, ps \ {i})

\* C29: in remove_older_until_fits every value the running total removed
\* takes during the walk is strictly less than size_to_remove =
\* starting_size - target_size, and removed is the summed size of the units
\* marked for eviction.
C29_RemovedBelowExcess ==
    (policy.kind = "size" /\ classified # {}) =>
        /\ walk.size_to_remove = walk.starting_size - policy.arg
        /\ walk.removed < walk.size_to_remove
        /\ \A i \in 1..Len(walk.trail) : walk.trail[i] < walk.size_to_remove
        /\ walk.removed = SumAt(walk.order, walk.marked)
        /\ Len(walk.trail) = Cardinality(walk.marked)

\* the walk marked two units for eviction and kept a third, whose size
\* would have brought removed to the excess or above
C29_Witness ==
    /\ policy.kind = "size"
    /\ classified # {}
    /\ Cardinality(walk.marked) = 2
    /\ Len(walk.order) = 3
    /\ walk.removed > 0

(***************************************************************************)
(* Claims about a tracked directory that is not there (Spec).              *)
(***************************************************************************)
\* the profiles of the root whose build or deps is missing
Incomplete == {p \in FingerprintDirs(old_tree) : Sized(p) \cap unreadable # {}}

\* the size policy found the root within the target and swept nothing
NothingToSweep ==
    policy.kind = "size" /\ already_below_target(old_size, policy.arg)

\* C30: a sweep that comes to a profile which has .fingerprint but lacks
\* build or deps returns an error; what it deleted before, in directories
\* of that profile processed earlier or in profiles swept earlier, stays
\* deleted.
C30_MissingTrackedDirectory ==
    (Done /\ Incomplete # {} /\ ~NothingToSweep) =>
        /\ result = Err
        /\ tree = IF dry_run THEN old_tree ELSE old_tree \ (attempts \ failures)

\* deps is missing: the sweep returned the error after it had deleted an
\* entry from build of the same profile
C30_Witness ==
    /\ Done
    /\ result = Err
    /\ ~dry_run
    /\ \E e \in old_tree \ tree :
           /\ e.dir = "build"
           /\ <<e.profile, "deps">> \in unreadable

=============================================================================
